---- MODULE Spec2Model ----
(***************************************************************************)
(* A model of the PCM sample library src/pyaudioop_compat.py (ratecv, mul, *)
(* add, bias, reverse, tomono, tostereo, lin2lin, lin2ulaw, ulaw2lin) and  *)
(* of the capture loop (process_audio_sample) of src/Musico.py,            *)
(* src/Musico_console.py and src/Musico_macos.py.                          *)
(*                                                                         *)
(* The library is a set of pure functions over byte strings.  A fragment   *)
(* is a sequence of bytes (0..255).  Every function is an operator that    *)
(* returns an outcome: Return(bytes) or Raise(exception, message).         *)
(*                                                                         *)
(* Python integers are unbounded, and the width-4 code paths reach values  *)
(* of magnitude 2^32, beyond the integers TLC computes with.  A Python int *)
(* is therefore a pair <<hi, lo>> that stands for hi * 2^16 + lo with      *)
(* 0 <= lo < 2^16.  A Python float is an IEEE double: the model holds the  *)
(* doubles n / d with d a power of two exactly, and the doubles +-2^1023,  *)
(* +-inf and nan by their class.                                           *)
(***************************************************************************)
EXTENDS Integers, Sequences, FiniteSets, TLC

VARIABLES
  pc,             \* the position of the caller, or of the capture cycle
  call,           \* the call under way: the operation and its arguments
  result,         \* the outcome of the call
  history,        \* the finished calls of a session, oldest first
  current_state,  \* MusicIdentifierConsole.current_state
  temp_file,      \* the temporary WAV files that exist on disk
  cycle           \* what has happened in the capture cycle under way

\* the variables of the capture loop
appVars == <<current_state, temp_file, cycle>>

vars == <<pc, call, result, history, appVars>>

(***************************************************************************)
(* Bounds of the model.                                                    *)
(***************************************************************************)
\* the longest input fragment, in samples, of the one-fragment operations
MaxSamples == 3
\* the longest input fragment, in samples, of add (two fragments per call)
MaxAddSamples == 2
\* the most calls of one session
MaxCalls == 3
\* the most temporary files left on disk before the capture loop is stopped
MaxFiles == 2

(***************************************************************************)
(* Python int: <<hi, lo>> = hi * Base + lo, 0 <= lo < Base.                *)
(***************************************************************************)
Base == 256 * 256

Norm(h, l) == <<h + (l \div Base), l % Base>>

BigOf(n) == Norm(0, n)

BigAdd(a, b) == Norm(a[1] + b[1], a[2] + b[2])

\* a * n for a small machine integer n
BigScale(a, n) == Norm(a[1] * n, a[2] * n)

BigLess(a, b) == a[1] < b[1] \/ (a[1] = b[1] /\ a[2] < b[2])

\* a / d rounded toward zero, where the code rounds toward negative infinity
BigTruncDiv(a, d) ==
  LET r == ((a[1] % d) * Base) + a[2]
  IN  IF a[1] < 0 /\ r % d # 0 THEN Norm(a[1] \div d, (r \div d) + 1)
      ELSE <<a[1] \div d, r \div d>>

\* floor(a / d) for a small positive machine integer d
BigFloorDiv(a, d) == <<a[1] \div d, (((a[1] % d) * Base) + a[2]) \div d>>

BigDivides(d, a) == (((a[1] % d) * Base) + a[2]) % d = 0

(***************************************************************************)
(* Outcomes of a call.                                                     *)
(***************************************************************************)
None == [kind |-> "none"]

Return(value) == [kind |-> "return", value |-> value]

Raise(exc, msg) == [kind |-> "raise", exc |-> exc, msg |-> msg]

Returned(r) == r.kind = "return"

Raised(r) == r.kind = "raise"

(***************************************************************************)
(* Python float.  [cls |-> "finite", num, den] is the double num / den     *)
(* (num a Python int of the model, den 1, 2 or 4): with samples below 2^32 *)
(* and factors in halves the double arithmetic of the code is exact.       *)
(* [cls |-> "huge"] is the double sign * 2^1023, [cls |-> "inf"] is        *)
(* sign * infinity, [cls |-> "nan"] is not-a-number; num holds the sign.   *)
(*                                                                         *)
(* A factor is a triple <<n, d, e>> for the double n / d * 2^e, with e = 0 *)
(* or with n / d = +-1 and e = 1023.                                       *)
(***************************************************************************)
Finite(num, den) == [cls |-> "finite", num |-> num, den |-> den]

Huge(sign) == [cls |-> "huge", num |-> BigOf(sign), den |-> 1]

Inf(sign) == [cls |-> "inf", num |-> BigOf(sign), den |-> 1]

NaN == [cls |-> "nan", num |-> BigOf(0), den |-> 1]

SignOf(a) == IF a[1] < 0 THEN -1 ELSE IF a = BigOf(0) THEN 0 ELSE 1

\* sample * factor (int times float): a product of magnitude 2^1024 or more
\* overflows to infinity
FloatMul(sample, factor) ==
  LET p == BigScale(sample, factor[1])
  IN  IF factor[3] = 0 THEN Finite(p, factor[2])
      ELSE IF p = BigOf(0) THEN Finite(p, 1)
      ELSE IF p \in {BigOf(1), BigOf(-1)} THEN Huge(SignOf(p))
      ELSE Inf(SignOf(p))

\* x + y (float plus float): 2^1023 absorbs a finite value of the model,
\* 2^1023 + 2^1023 overflows, inf - inf is nan
FloatAdd(x, y) ==
  IF x.cls = "finite" /\ y.cls = "finite"
    THEN Finite(BigAdd(BigScale(x.num, y.den), BigScale(y.num, x.den)), x.den * y.den)
  ELSE IF x.cls = "nan" \/ y.cls = "nan" THEN NaN
  ELSE IF x.cls = "inf" /\ y.cls = "inf" THEN (IF x.num = y.num THEN x ELSE NaN)
  ELSE IF x.cls = "inf" THEN x
  ELSE IF y.cls = "inf" THEN y
  ELSE IF x.cls = "huge" /\ y.cls = "huge"
    THEN (IF x.num = y.num THEN Inf(SignOf(x.num)) ELSE Finite(BigOf(0), 1))
  ELSE IF x.cls = "huge" THEN x
  ELSE y

\* int(2.0 ** 1023) is the Python int 2^1023.  The code hands it to _clip
\* only, which compares it with bounds below 2^32: the model holds 2^40 with
\* the sign, which compares the same way.
HugeInt(sign) == <<sign * Base * 256, 0>>

\* int(x) of a finite double: truncation toward zero
trunc(x) ==
  IF x.num[1] < 0 /\ ~BigDivides(x.den, x.num)
    THEN BigAdd(BigFloorDiv(x.num, x.den), BigOf(1))
    ELSE BigFloorDiv(x.num, x.den)

\* int(x): Return(the int) or the error int() raises
int(x) ==
  IF x.cls = "finite" THEN Return(trunc(x))
  ELSE IF x.cls = "huge" THEN Return(HugeInt(SignOf(x.num)))
  ELSE IF x.cls = "inf"
    THEN Raise("OverflowError", "cannot convert float infinity to integer")
  ELSE Raise("ValueError", "cannot convert float NaN to integer")

\* a loop over the samples stops at the first sample whose int() raises
AnyRaised(outcomes) == \E i \in 1..Len(outcomes) : Raised(outcomes[i])

FirstRaised(outcomes) ==
  outcomes[CHOOSE i \in 1..Len(outcomes) :
             Raised(outcomes[i]) /\ \A j \in 1..(i - 1) : ~Raised(outcomes[j])]

(***************************************************************************)
(* _clip(val, min_val, max_val): max(min_val, min(val, max_val)).          *)
(***************************************************************************)
\* min that keeps its first argument
minFirst(a, b) == a

min(a, b) == IF BigLess(b, a) THEN b ELSE a

max(a, b) == IF BigLess(a, b) THEN b ELSE a

\* _clip without the lower bound
clipUpperOnly(val, min_val, max_val) == min(val, max_val)

_clip(val, min_val, max_val) == max(min_val, min(val, max_val))

(***************************************************************************)
(* The integer literals of the code.                                       *)
(***************************************************************************)
Int16Min == <<-1, 32768>>          \* -32768

Int16Max == <<0, 32767>>           \* 32767

Int32Min == <<-32768, 0>>          \* -2147483648

Int32Max == <<32767, 65535>>       \* 2147483647

UInt8Min == <<0, 0>>               \* 0

UInt8Max == <<0, 255>>             \* 255

(***************************************************************************)
(* list(fragment), bytes(list), struct.unpack and struct.pack with the     *)
(* formats '<Nh' (size 2) and '<Ni' (size 4): little-endian, signed.       *)
(***************************************************************************)
list(fragment) == [i \in 1..Len(fragment) |-> BigOf(fragment[i])]

bytes(samples) ==
  IF \E i \in 1..Len(samples) : BigLess(samples[i], UInt8Min) \/ BigLess(UInt8Max, samples[i])
    THEN Raise("ValueError", "bytes must be in range(0, 256)")
    ELSE Return([i \in 1..Len(samples) |-> samples[i][2]])

\* the signed little-endian value of the size bytes that start at offset
unpackOne(fragment, size, offset) ==
  IF size = 2
    THEN LET u == fragment[offset + 1] + 256 * fragment[offset + 2]
         IN  Norm(0, IF fragment[offset + 2] >= 128 THEN u - Base ELSE u)
    ELSE LET lo == fragment[offset + 1] + 256 * fragment[offset + 2]
             hi == fragment[offset + 3] + 256 * fragment[offset + 4]
         IN  <<IF fragment[offset + 4] >= 128 THEN hi - Base ELSE hi, lo>>

\* struct.unpack(f'<{len(fragment)//size}h' or 'i', fragment): the buffer
\* must hold exactly (len // size) * size bytes
unpack(fragment, size) ==
  IF Len(fragment) # (Len(fragment) \div size) * size
    THEN Raise("struct.error", "unpack requires a buffer of the format's size")
    ELSE Return([i \in 1..(Len(fragment) \div size) |-> unpackOne(fragment, size, (i - 1) * size)])

\* byte j (0 = least significant) of the two's complement form of v
packByte(v, j) ==
  LET word == IF j < 2 THEN v[2] ELSE v[1] % Base
  IN  IF j % 2 = 0 THEN word % 256 ELSE word \div 256

\* struct.pack(f'<{len(samples)}h' or 'i', *samples): every value must fit
pack(samples, size) ==
  LET lo == IF size = 2 THEN Int16Min ELSE Int32Min
      hi == IF size = 2 THEN Int16Max ELSE Int32Max
  IN  IF \E i \in 1..Len(samples) : BigLess(samples[i], lo) \/ BigLess(hi, samples[i])
        THEN Raise("struct.error", "argument out of range")
        ELSE Return([k \in 1..(Len(samples) * size) |->
                       packByte(samples[((k - 1) \div size) + 1], (k - 1) % size)])

(***************************************************************************)
(* mul(fragment, width, factor)                                            *)
(***************************************************************************)
mul(fragment, width, factor) ==
  IF fragment = <<>> THEN Return(fragment)
  ELSE IF width = 1 THEN
    LET samples == list(fragment)
        ints == [i \in 1..Len(samples) |-> int(FloatMul(samples[i], factor))]
    IN  IF AnyRaised(ints) THEN FirstRaised(ints)
        ELSE bytes([i \in 1..Len(ints) |-> _clip(ints[i].value, UInt8Min, UInt8Max)])
  ELSE IF width = 2 THEN
    LET samples == unpack(fragment, 2)
        ints == [i \in 1..Len(samples.value) |-> int(FloatMul(samples.value[i], factor))]
    IN  IF Raised(samples) THEN samples
        ELSE IF AnyRaised(ints) THEN FirstRaised(ints)
        ELSE pack([i \in 1..Len(ints) |-> _clip(ints[i].value, Int16Min, Int16Max)], 2)
  ELSE IF width = 4 THEN
    LET samples == unpack(fragment, 4)
        ints == [i \in 1..Len(samples.value) |-> int(FloatMul(samples.value[i], factor))]
    IN  IF Raised(samples) THEN samples
        ELSE IF AnyRaised(ints) THEN FirstRaised(ints)
        ELSE pack([i \in 1..Len(ints) |-> _clip(ints[i].value, Int32Min, Int32Max)], 4)
  ELSE Raise("ValueError", "Unsupported sample width")

(***************************************************************************)
(* add(fragment1, fragment2, width)                                        *)
(***************************************************************************)
\* zip(samples1, samples2) stops at the shorter of the two
zipLen(samples1, samples2) ==
  IF Len(samples1) < Len(samples2) THEN Len(samples1) ELSE Len(samples2)

\* the width dispatch of add, reached with two non-empty fragments of one length
addSamples(fragment1, fragment2, width) ==
  IF width = 1 THEN
    LET samples1 == list(fragment1)
        samples2 == list(fragment2)
    IN  bytes([i \in 1..zipLen(samples1, samples2) |->
                 _clip(BigAdd(samples1[i], samples2[i]), UInt8Min, UInt8Max)])
  ELSE IF width = 2 THEN
    LET samples1 == unpack(fragment1, 2)
        samples2 == unpack(fragment2, 2)
    IN  IF Raised(samples1) THEN samples1
        ELSE IF Raised(samples2) THEN samples2
        ELSE pack([i \in 1..zipLen(samples1.value, samples2.value) |->
                     _clip(BigAdd(samples1.value[i], samples2.value[i]), Int16Min, Int16Max)], 2)
  ELSE IF width = 4 THEN
    LET samples1 == unpack(fragment1, 4)
        samples2 == unpack(fragment2, 4)
    IN  IF Raised(samples1) THEN samples1
        ELSE IF Raised(samples2) THEN samples2
        ELSE pack([i \in 1..zipLen(samples1.value, samples2.value) |->
                     _clip(BigAdd(samples1.value[i], samples2.value[i]), Int32Min, Int32Max)], 4)
  ELSE Raise("ValueError", "Unsupported sample width")

\* add with the empty-fragment return moved before the length check
addEmptyFirst(fragment1, fragment2, width) ==
  IF fragment1 = <<>> THEN Return(fragment1)
  ELSE IF Len(fragment1) # Len(fragment2)
    THEN Raise("ValueError", "Fragments must have the same length")
  ELSE addSamples(fragment1, fragment2, width)

add(fragment1, fragment2, width) ==
  IF Len(fragment1) # Len(fragment2)
    THEN Raise("ValueError", "Fragments must have the same length")
  ELSE IF fragment1 = <<>> THEN Return(fragment1)
  ELSE addSamples(fragment1, fragment2, width)

(***************************************************************************)
(* bias(fragment, width, bias): the bias is a Python int                   *)
(***************************************************************************)
bias(fragment, width, b) ==
  IF fragment = <<>> THEN Return(fragment)
  ELSE IF width = 1 THEN
    LET samples == list(fragment)
    IN  bytes([i \in 1..Len(samples) |-> _clip(BigAdd(samples[i], b), UInt8Min, UInt8Max)])
  ELSE IF width = 2 THEN
    LET samples == unpack(fragment, 2)
    IN  IF Raised(samples) THEN samples
        ELSE pack([i \in 1..Len(samples.value) |->
                     _clip(BigAdd(samples.value[i], b), Int16Min, Int16Max)], 2)
  ELSE IF width = 4 THEN
    LET samples == unpack(fragment, 4)
    IN  IF Raised(samples) THEN samples
        ELSE pack([i \in 1..Len(samples.value) |->
                     _clip(BigAdd(samples.value[i], b), Int32Min, Int32Max)], 4)
  ELSE Raise("ValueError", "Unsupported sample width")

(***************************************************************************)
(* reverse(fragment, width)                                                *)
(***************************************************************************)
\* for i in range(start, -1, -width): result.extend(fragment[i:i + width]),
\* from i on (width > 0)
\* the loop stopping at range(start, 0, -width): the chunk at 0 is left out
RECURSIVE reverseLoopStopEarly(_, _, _)
reverseLoopStopEarly(fragment, width, i) ==
  IF i <= 0 THEN <<>>
  ELSE SubSeq(fragment, i + 1, i + width) \o reverseLoopStopEarly(fragment, width, i - width)

RECURSIVE reverseLoop(_, _, _)
reverseLoop(fragment, width, i) ==
  IF i < 0 THEN <<>>
  ELSE SubSeq(fragment, i + 1, i + width) \o reverseLoop(fragment, width, i - width)

\* reverse byte by byte, whatever the width
reverseBytes(fragment, width) ==
  Return([i \in 1..Len(fragment) |-> fragment[Len(fragment) + 1 - i]])

\* reverse with the loop started at the last whole chunk counted from the
\* front: of a ragged fragment the trailing bytes are dropped
reverseFromFront(fragment, width) ==
  IF fragment = <<>> THEN Return(fragment)
  ELSE IF width = 0 THEN Raise("ValueError", "range() arg 3 must not be zero")
  ELSE IF width < 0 THEN Return(<<>>)
  ELSE Return(reverseLoop(fragment, width, ((Len(fragment) \div width) * width) - width))

reverse(fragment, width) ==
  IF fragment = <<>> THEN Return(fragment)
  ELSE IF width = 0 THEN Raise("ValueError", "range() arg 3 must not be zero")
  ELSE IF width < 0 THEN Return(<<>>)
  ELSE Return(reverseLoop(fragment, width, Len(fragment) - width))

(***************************************************************************)
(* tomono(fragment, width, lfactor, rfactor)                               *)
(***************************************************************************)
\* for i in range(0, len(samples), 2): if i + 1 < len(samples): one output
\* per i; the model's k-th output (k from 1) is the one of i = 2 * (k - 1)
monoCount(samples) == Cardinality({i \in 0..(Len(samples) - 1) : i % 2 = 0 /\ i + 1 < Len(samples)})

\* int(left * lfactor + right * rfactor) of output k: Return(the int) or the error
mono(samples, k, lfactor, rfactor) ==
  LET left == samples[2 * (k - 1) + 1]
      right == samples[2 * (k - 1) + 2]
  IN  int(FloatAdd(FloatMul(left, lfactor), FloatMul(right, rfactor)))

tomono(fragment, width, lfactor, rfactor) ==
  IF fragment = <<>> THEN Return(fragment)
  ELSE IF width = 1 THEN
    LET samples == list(fragment)
        monos == [k \in 1..monoCount(samples) |-> mono(samples, k, lfactor, rfactor)]
    IN  IF AnyRaised(monos) THEN FirstRaised(monos)
        ELSE bytes([k \in 1..Len(monos) |-> _clip(monos[k].value, UInt8Min, UInt8Max)])
  ELSE IF width = 2 THEN
    LET samples == unpack(fragment, 2)
        monos == [k \in 1..monoCount(samples.value) |->
                    mono(samples.value, k, lfactor, rfactor)]
    IN  IF Raised(samples) THEN samples
        ELSE IF AnyRaised(monos) THEN FirstRaised(monos)
        ELSE pack([k \in 1..Len(monos) |-> _clip(monos[k].value, Int16Min, Int16Max)], 2)
  ELSE IF width = 4 THEN
    LET samples == unpack(fragment, 4)
        monos == [k \in 1..monoCount(samples.value) |->
                    mono(samples.value, k, lfactor, rfactor)]
    IN  IF Raised(samples) THEN samples
        ELSE IF AnyRaised(monos) THEN FirstRaised(monos)
        ELSE pack([k \in 1..Len(monos) |-> _clip(monos[k].value, Int32Min, Int32Max)], 4)
  ELSE Raise("ValueError", "Unsupported sample width")

(***************************************************************************)
(* tostereo(fragment, width, lfactor, rfactor)                             *)
(***************************************************************************)
\* left = int(sample * lfactor); right = int(sample * rfactor) for every
\* sample, then result.extend([left, right]): element j (from 1) of the
\* result comes from sample (j + 1) \div 2, the left value for odd j, the
\* right value for even j.  Return(the int) or the error.
stereo(samples, j, lfactor, rfactor) ==
  int(FloatMul(samples[(j + 1) \div 2], IF j % 2 = 1 THEN lfactor ELSE rfactor))

tostereo(fragment, width, lfactor, rfactor) ==
  IF fragment = <<>> THEN Return(fragment)
  ELSE IF width = 1 THEN
    LET samples == list(fragment)
        ints == [j \in 1..(2 * Len(samples)) |-> stereo(samples, j, lfactor, rfactor)]
    IN  IF AnyRaised(ints) THEN FirstRaised(ints)
        ELSE bytes([j \in 1..Len(ints) |-> _clip(ints[j].value, UInt8Min, UInt8Max)])
  ELSE IF width = 2 THEN
    LET samples == unpack(fragment, 2)
        ints == [j \in 1..(2 * Len(samples.value)) |->
                   stereo(samples.value, j, lfactor, rfactor)]
    IN  IF Raised(samples) THEN samples
        ELSE IF AnyRaised(ints) THEN FirstRaised(ints)
        ELSE pack([j \in 1..Len(ints) |-> _clip(ints[j].value, Int16Min, Int16Max)], 2)
  ELSE IF width = 4 THEN
    LET samples == unpack(fragment, 4)
        ints == [j \in 1..(2 * Len(samples.value)) |->
                   stereo(samples.value, j, lfactor, rfactor)]
    IN  IF Raised(samples) THEN samples
        ELSE IF AnyRaised(ints) THEN FirstRaised(ints)
        ELSE pack([j \in 1..Len(ints) |-> _clip(ints[j].value, Int32Min, Int32Max)], 4)
  ELSE Raise("ValueError", "Unsupported sample width")

(***************************************************************************)
(* lin2lin(fragment, width, newwidth)                                      *)
(***************************************************************************)
\* the width-1 samples taken as s - 128, without the factor 256
lin2linSamplesUnscaled(fragment, width) ==
  IF width = 1
    THEN Return([i \in 1..Len(fragment) |-> BigOf(fragment[i] - 128)])
  ELSE IF width = 2 THEN unpack(fragment, 2)
  ELSE IF width = 4 THEN unpack(fragment, 4)
  ELSE Raise("ValueError", "Unsupported input width")

\* the width-1 samples taken as s * 256, without the shift by 128
lin2linSamplesUnshifted(fragment, width) ==
  IF width = 1
    THEN Return([i \in 1..Len(fragment) |-> BigScale(BigOf(fragment[i]), 256)])
  ELSE IF width = 2 THEN unpack(fragment, 2)
  ELSE IF width = 4 THEN unpack(fragment, 4)
  ELSE Raise("ValueError", "Unsupported input width")

\* the width-4 samples brought to the 16-bit domain: sample // 65536
lin2linSamplesRescaled(fragment, width) ==
  IF width = 1
    THEN Return([i \in 1..Len(fragment) |-> BigScale(BigOf(fragment[i] - 128), 256)])
  ELSE IF width = 2 THEN unpack(fragment, 2)
  ELSE IF width = 4 THEN
    LET samples == unpack(fragment, 4)
    IN  IF Raised(samples) THEN samples
        ELSE Return([i \in 1..Len(samples.value) |->
                       BigFloorDiv(BigFloorDiv(samples.value[i], 256), 256)])
  ELSE Raise("ValueError", "Unsupported input width")

\* the intermediate samples: Return(list) or the raised error
lin2linSamples(fragment, width) ==
  IF width = 1
    THEN Return([i \in 1..Len(fragment) |-> BigScale(BigOf(fragment[i] - 128), 256)])
  ELSE IF width = 2 THEN unpack(fragment, 2)
  ELSE IF width = 4 THEN unpack(fragment, 4)
  ELSE Raise("ValueError", "Unsupported input width")

\* lin2lin from the empty-fragment check on
lin2linConvert(fragment, width, newwidth) ==
  IF fragment = <<>> THEN Return(fragment)
  ELSE LET samples == lin2linSamples(fragment, width)
       IN  IF Raised(samples) THEN samples
           ELSE IF newwidth = 1 THEN
             bytes([i \in 1..Len(samples.value) |->
                      _clip(BigAdd(BigFloorDiv(samples.value[i], 256), BigOf(128)),
                            UInt8Min, UInt8Max)])
           ELSE IF newwidth = 2 THEN
             pack([i \in 1..Len(samples.value) |->
                     _clip(samples.value[i], Int16Min, Int16Max)], 2)
           ELSE IF newwidth = 4 THEN
             pack([i \in 1..Len(samples.value) |->
                     _clip(samples.value[i], Int32Min, Int32Max)], 4)
           ELSE Raise("ValueError", "Unsupported output width")

\* lin2lin without the equal-width shortcut
lin2linNoShortcut(fragment, width, newwidth) == lin2linConvert(fragment, width, newwidth)

lin2lin(fragment, width, newwidth) ==
  IF width = newwidth THEN Return(fragment)
  ELSE lin2linConvert(fragment, width, newwidth)

(***************************************************************************)
(* lin2ulaw(fragment, width) and ulaw2lin(fragment, width)                 *)
(***************************************************************************)
\* lin2ulaw without the offset 32768
lin2ulawNoOffset(fragment, width) ==
  IF fragment = <<>> THEN Return(fragment)
  ELSE IF width = 1 THEN Return(fragment)
  ELSE IF width = 2 THEN
    LET samples == unpack(fragment, 2)
    IN  IF Raised(samples) THEN samples
        ELSE bytes([i \in 1..Len(samples.value) |->
                      _clip(BigFloorDiv(samples.value[i], 256), UInt8Min, UInt8Max)])
  ELSE Raise("ValueError", "Unsupported width for u-law")

lin2ulaw(fragment, width) ==
  IF fragment = <<>> THEN Return(fragment)
  ELSE IF width = 1 THEN Return(fragment)
  ELSE IF width = 2 THEN
    LET samples == unpack(fragment, 2)
    IN  IF Raised(samples) THEN samples
        ELSE bytes([i \in 1..Len(samples.value) |->
                      _clip(BigFloorDiv(BigAdd(samples.value[i], BigOf(32768)), 256),
                            UInt8Min, UInt8Max)])
  ELSE Raise("ValueError", "Unsupported width for u-law")

\* ulaw2lin without the factor 256
ulaw2linUnscaled(fragment, width) ==
  IF fragment = <<>> THEN Return(fragment)
  ELSE IF width = 1 THEN Return(fragment)
  ELSE IF width = 2 THEN
    pack([i \in 1..Len(fragment) |->
            _clip(BigOf(fragment[i] - 128), Int16Min, Int16Max)], 2)
  ELSE Raise("ValueError", "Unsupported width for linear")

\* ulaw2lin without the shift by 128
ulaw2linUnshifted(fragment, width) ==
  IF fragment = <<>> THEN Return(fragment)
  ELSE IF width = 1 THEN Return(fragment)
  ELSE IF width = 2 THEN
    pack([i \in 1..Len(fragment) |->
            _clip(BigScale(BigOf(fragment[i]), 256), Int16Min, Int16Max)], 2)
  ELSE Raise("ValueError", "Unsupported width for linear")

ulaw2lin(fragment, width) ==
  IF fragment = <<>> THEN Return(fragment)
  ELSE IF width = 1 THEN Return(fragment)
  ELSE IF width = 2 THEN
    pack([i \in 1..Len(fragment) |->
            _clip(BigScale(BigOf(fragment[i] - 128), 256), Int16Min, Int16Max)], 2)
  ELSE Raise("ValueError", "Unsupported width for linear")

(***************************************************************************)
(* ratecv(fragment, nchannels, inrate, outrate, state): weightA and        *)
(* weightB are read nowhere.  The state is None or a Python tuple; the     *)
(* outcome is Return(<<fragment, state>>).                                 *)
(***************************************************************************)
Tuple(items) == [kind |-> "tuple", items |-> items]

\* [0] * nchannels
zeros(nchannels) == [i \in 1..nchannels |-> BigOf(0)]

\* d, prev_i, cur_i = state: the tuple must hold three items
unpackState(state) ==
  IF Len(state.items) < 3 THEN Raise("ValueError", "not enough values to unpack")
  ELSE IF Len(state.items) > 3 THEN Raise("ValueError", "too many values to unpack")
  ELSE Return(state.items)

\* ratecv without the return of an empty fragment
ratecvNoEmptyReturn(fragment, nchannels, inrate, outrate, state) ==
  IF state # None /\ Raised(unpackState(state)) THEN unpackState(state)
  ELSE IF inrate = outrate THEN Return(<<fragment, state>>)
  ELSE IF state = None
    THEN Return(<<fragment, Tuple(<<BigOf(0), zeros(nchannels), zeros(nchannels)>>)>>)
  ELSE Return(<<fragment, Tuple(<<state.items[1], state.items[2], state.items[3]>>)>>)

\* ratecv keeping the state it returned last in the module, and taking it
\* when it is called without a state
ratecvRetaining(fragment, nchannels, inrate, outrate, state) ==
  LET last == history[Len(history)]
      kept == IF /\ state = None
                 /\ history # <<>>
                 /\ last.call.op = "ratecv"
                 /\ Returned(last.result)
                THEN last.result.value[2]
                ELSE state
  IN  IF fragment = <<>> THEN Return(<<fragment, kept>>)
      ELSE IF kept # None /\ Raised(unpackState(kept)) THEN unpackState(kept)
      ELSE IF inrate = outrate THEN Return(<<fragment, kept>>)
      ELSE IF kept = None
        THEN Return(<<fragment, Tuple(<<BigOf(0), zeros(nchannels), zeros(nchannels)>>)>>)
      ELSE Return(<<fragment, Tuple(<<kept.items[1], kept.items[2], kept.items[3]>>)>>)

\* ratecv advancing the accumulator in the rate-mismatch case
ratecvAdvancing(fragment, nchannels, inrate, outrate, state) ==
  IF fragment = <<>> THEN Return(<<fragment, state>>)
  ELSE IF state # None /\ Raised(unpackState(state)) THEN unpackState(state)
  ELSE IF inrate = outrate THEN Return(<<fragment, state>>)
  ELSE IF state = None
    THEN Return(<<fragment, Tuple(<<BigOf(1), zeros(nchannels), zeros(nchannels)>>)>>)
  ELSE Return(<<fragment,
                Tuple(<<BigAdd(state.items[1], BigOf(1)), state.items[2], state.items[3]>>)>>)

\* ratecv returning the passed state in the rate-mismatch case too
ratecvKeepState(fragment, nchannels, inrate, outrate, state) ==
  IF fragment = <<>> THEN Return(<<fragment, state>>)
  ELSE IF state # None /\ Raised(unpackState(state)) THEN unpackState(state)
  ELSE Return(<<fragment, state>>)

ratecv(fragment, nchannels, inrate, outrate, state) ==
  IF fragment = <<>> THEN Return(<<fragment, state>>)
  ELSE IF state # None /\ Raised(unpackState(state)) THEN unpackState(state)
  ELSE LET d == IF state = None THEN BigOf(0) ELSE state.items[1]
           prev_i == IF state = None THEN zeros(nchannels) ELSE state.items[2]
           cur_i == IF state = None THEN zeros(nchannels) ELSE state.items[3]
       IN  IF inrate = outrate THEN Return(<<fragment, state>>)
           ELSE Return(<<fragment, Tuple(<<d, prev_i, cur_i>>)>>)

\* the state object passed to ratecv, as it is when the call has returned:
\* no statement of ratecv stores into state, prev_i or cur_i
ratecvPassedState(fragment, nchannels, inrate, outrate, state) == state

(***************************************************************************)
(* The format constants and the lookups _get_sample_size(fmt) and          *)
(* _get_sample_format(fmt).  AFMT_S16_NE is fixed when the module is       *)
(* loaded, by the byte order of the platform; the lookups read it.         *)
(***************************************************************************)
AFMT_S16_LE == 16

AFMT_S16_BE == 32

\* AFMT_S16_LE if struct.pack('h', 1) == b'\x01\x00' else AFMT_S16_BE
AFMT_S16_NE(byteorder) == IF byteorder = "little" THEN AFMT_S16_LE ELSE AFMT_S16_BE

\* the lookup with the 24-bit tag tested before the 16-bit tags
_get_sample_size24First(fmt, byteorder) ==
  IF fmt = 32 THEN Return(3)
  ELSE IF fmt \in {AFMT_S16_LE, AFMT_S16_BE, AFMT_S16_NE(byteorder)} THEN Return(2)
  ELSE IF fmt = 8 THEN Return(1)
  ELSE IF fmt = 64 THEN Return(4)
  ELSE Raise("ValueError", "Unsupported audio format")

_get_sample_size(fmt, byteorder) ==
  IF fmt \in {AFMT_S16_LE, AFMT_S16_BE, AFMT_S16_NE(byteorder)} THEN Return(2)
  ELSE IF fmt = 8 THEN Return(1)
  ELSE IF fmt = 32 THEN Return(3)
  ELSE IF fmt = 64 THEN Return(4)
  ELSE Raise("ValueError", "Unsupported audio format")

_get_sample_format(fmt, byteorder) ==
  IF fmt \in {AFMT_S16_LE, AFMT_S16_BE, AFMT_S16_NE(byteorder)}
    THEN Return(IF fmt = AFMT_S16_LE THEN "<h" ELSE ">h")
  ELSE IF fmt = 8 THEN Return("B")
  ELSE IF fmt = 32 THEN Return(IF fmt = AFMT_S16_LE THEN "<i" ELSE ">i")
  ELSE IF fmt = 64 THEN Return(IF fmt = AFMT_S16_LE THEN "<i" ELSE ">i")
  ELSE Raise("ValueError", "Unsupported audio format")

(***************************************************************************)
(* The inputs of the calls.  A fragment is a run of whole samples of one   *)
(* width (1, 2 or 4 bytes); the width argument of a call is drawn          *)
(* separately, so a call may also read a fragment at another width, at an  *)
(* unsupported width, or find a ragged length.                              *)
(***************************************************************************)
\* width-1 samples 0, 1, 128, 255
Chunks1 == {<<0>>, <<1>>, <<128>>, <<255>>}

\* width-2 samples 1, -1, 32767, -32768
Chunks2 == {<<1, 0>>, <<255, 255>>, <<255, 127>>, <<0, 128>>}

\* width-4 samples 1, -1, 2147483647, -2147483648
Chunks4 == {<<1, 0, 0, 0>>, <<255, 255, 255, 255>>, <<255, 255, 255, 127>>, <<0, 0, 0, 128>>}

RECURSIVE FragmentsUpTo(_, _)
FragmentsUpTo(chunks, n) ==
  IF n = 0 THEN {<<>>}
  ELSE LET shorter == FragmentsUpTo(chunks, n - 1)
       IN  shorter \cup {f \o c : f \in shorter, c \in chunks}

Fragments(n) ==
  FragmentsUpTo(Chunks1, n) \cup FragmentsUpTo(Chunks2, n) \cup FragmentsUpTo(Chunks4, n)

\* 3 stands for the widths no operation supports
Widths == {1, 2, 3, 4}

\* the doubles -2.0, -1.0, -0.5, 0.0, 0.5, 1.0, 1.5, 2.0 and +-2.0 ** 1023
Factors ==
  {<<-2, 1, 0>>, <<-1, 1, 0>>, <<-1, 2, 0>>, <<0, 1, 0>>, <<1, 2, 0>>, <<1, 1, 0>>,
   <<3, 2, 0>>, <<2, 1, 0>>, <<1, 1, 1023>>, <<-1, 1, 1023>>}

\* the Python ints -2^32, -300, -1, 0, 1, 300, 2^32
Biases == {<<-Base, 0>>, BigOf(-300), BigOf(-1), BigOf(0), BigOf(1), BigOf(300), <<Base, 0>>}

\* the doubles -1.0, -0.5, 0.5, 1.0, 2.0 and +-2.0 ** 1023 of the two-factor
\* operations
MixFactors ==
  {<<-1, 1, 0>>, <<-1, 2, 0>>, <<1, 2, 0>>, <<1, 1, 0>>, <<2, 1, 0>>,
   <<1, 1, 1023>>, <<-1, 1, 1023>>}

\* the widths reverse is called with: it does not dispatch on the width
ReverseWidths == {0, 1, 2, 3, 4}

\* the two fragments of an add call
AddPairs == Fragments(MaxAddSamples) \X Fragments(MaxAddSamples)

\* every width-1 sample, as a fragment of one sample
Samples1 == {<<b>> : b \in 0..255}

\* width-2 samples of every high byte, as fragments of one sample
Samples2 == {<<lo, hi>> : lo \in {0, 1, 2, 127, 128, 254, 255}, hi \in 0..255}

\* the fragments of the width conversions and of the companding codec
ConvFragments == Fragments(MaxSamples) \cup Samples1 \cup Samples2

\* the channel counts and the rates of ratecv
Channels == {0, 1, 2}

Rates == {22050, 44100}

\* the states passed to ratecv: None, the tuples (0, [0], [0]), (5, [1], [2])
\* and (3, [1, 2], [3, 4]), and (1, [0]), a tuple that is not a state
States ==
  {None,
   Tuple(<<BigOf(0), <<BigOf(0)>>, <<BigOf(0)>>>>),
   Tuple(<<BigOf(5), <<BigOf(1)>>, <<BigOf(2)>>>>),
   Tuple(<<BigOf(3), <<BigOf(1), BigOf(2)>>, <<BigOf(3), BigOf(4)>>>>),
   Tuple(<<BigOf(1), <<BigOf(0)>>>>)}

\* the format tags: every integer up to twice the largest tag of the code
Formats == 0..128

\* the byte order of the platform
ByteOrders == {"little", "big"}

(***************************************************************************)
(* A single call belongs to no session and to no capture loop: the         *)
(* history is empty, the capture loop is as constructed.                   *)
(***************************************************************************)
NoSession ==
  /\ history = <<>>
  /\ current_state = "silence"
  /\ temp_file = {}
  /\ cycle = None

(***************************************************************************)
(* The calls.  A behaviour is one call: the arguments are chosen in the    *)
(* initial state, the call computes the outcome.  The library keeps no     *)
(* state between calls.                                                    *)
(***************************************************************************)
InitMul ==
  /\ pc = "start"
  /\ call \in [op : {"mul"}, fragment : Fragments(MaxSamples), width : Widths, factor : Factors]
  /\ result = None
  /\ NoSession

MulCall ==
  /\ pc = "start"
  /\ call.op = "mul"
  /\ result' = mul(call.fragment, call.width, call.factor)
  /\ pc' = "done"
  /\ UNCHANGED <<call, history, appVars>>

InitAdd ==
  /\ pc = "start"
  /\ \E pair \in AddPairs, width \in Widths :
       call = [op |-> "add", fragment1 |-> pair[1], fragment2 |-> pair[2], width |-> width]
  /\ result = None
  /\ NoSession

AddCall ==
  /\ pc = "start"
  /\ call.op = "add"
  /\ result' = add(call.fragment1, call.fragment2, call.width)
  /\ pc' = "done"
  /\ UNCHANGED <<call, history, appVars>>

InitBias ==
  /\ pc = "start"
  /\ call \in [op : {"bias"}, fragment : Fragments(MaxSamples), width : Widths, bias : Biases]
  /\ result = None
  /\ NoSession

BiasCall ==
  /\ pc = "start"
  /\ call.op = "bias"
  /\ result' = bias(call.fragment, call.width, call.bias)
  /\ pc' = "done"
  /\ UNCHANGED <<call, history, appVars>>

InitReverse ==
  /\ pc = "start"
  /\ call \in [op : {"reverse"}, fragment : Fragments(MaxSamples), width : ReverseWidths]
  /\ result = None
  /\ NoSession

ReverseCall ==
  /\ pc = "start"
  /\ call.op = "reverse"
  /\ result' = reverse(call.fragment, call.width)
  /\ pc' = "done"
  /\ UNCHANGED <<call, history, appVars>>

\* the caller reverses the returned fragment again, at the same width
ReverseBack ==
  /\ pc = "done"
  /\ call.op = "reverse"
  /\ Returned(result)
  /\ result' = reverse(result.value, call.width)
  /\ pc' = "back"
  /\ UNCHANGED <<call, history, appVars>>

InitTomono ==
  /\ pc = "start"
  /\ call \in [op : {"tomono"}, fragment : Fragments(MaxSamples), width : Widths,
               lfactor : MixFactors, rfactor : MixFactors]
  /\ result = None
  /\ NoSession

TomonoCall ==
  /\ pc = "start"
  /\ call.op = "tomono"
  /\ result' = tomono(call.fragment, call.width, call.lfactor, call.rfactor)
  /\ pc' = "done"
  /\ UNCHANGED <<call, history, appVars>>

InitTostereo ==
  /\ pc = "start"
  /\ call \in [op : {"tostereo"}, fragment : Fragments(MaxSamples), width : Widths,
               lfactor : MixFactors, rfactor : MixFactors]
  /\ result = None
  /\ NoSession

TostereoCall ==
  /\ pc = "start"
  /\ call.op = "tostereo"
  /\ result' = tostereo(call.fragment, call.width, call.lfactor, call.rfactor)
  /\ pc' = "done"
  /\ UNCHANGED <<call, history, appVars>>

InitLin2lin ==
  /\ pc = "start"
  /\ call \in [op : {"lin2lin"}, fragment : ConvFragments, width : Widths,
               newwidth : Widths]
  /\ result = None
  /\ NoSession

Lin2linCall ==
  /\ pc = "start"
  /\ call.op = "lin2lin"
  /\ result' = lin2lin(call.fragment, call.width, call.newwidth)
  /\ pc' = "done"
  /\ UNCHANGED <<call, history, appVars>>

\* the caller converts the returned fragment back to the first width
Lin2linBack ==
  /\ pc = "done"
  /\ call.op = "lin2lin"
  /\ Returned(result)
  /\ result' = lin2lin(result.value, call.newwidth, call.width)
  /\ pc' = "back"
  /\ UNCHANGED <<call, history, appVars>>

InitLin2ulaw ==
  /\ pc = "start"
  /\ call \in [op : {"lin2ulaw"}, fragment : ConvFragments, width : Widths]
  /\ result = None
  /\ NoSession

Lin2ulawCall ==
  /\ pc = "start"
  /\ call.op = "lin2ulaw"
  /\ result' = lin2ulaw(call.fragment, call.width)
  /\ pc' = "done"
  /\ UNCHANGED <<call, history, appVars>>

\* the caller decodes the returned fragment, at the same width
Lin2ulawBack ==
  /\ pc = "done"
  /\ call.op = "lin2ulaw"
  /\ Returned(result)
  /\ result' = ulaw2lin(result.value, call.width)
  /\ pc' = "back"
  /\ UNCHANGED <<call, history, appVars>>

InitUlaw2lin ==
  /\ pc = "start"
  /\ call \in [op : {"ulaw2lin"}, fragment : ConvFragments, width : Widths]
  /\ result = None
  /\ NoSession

Ulaw2linCall ==
  /\ pc = "start"
  /\ call.op = "ulaw2lin"
  /\ result' = ulaw2lin(call.fragment, call.width)
  /\ pc' = "done"
  /\ UNCHANGED <<call, history, appVars>>

InitRatecv ==
  /\ pc = "start"
  /\ call \in [op : {"ratecv"}, fragment : Fragments(MaxSamples), nchannels : Channels,
               inrate : Rates, outrate : Rates, state : States]
  /\ result = None
  /\ NoSession

RatecvCall ==
  /\ pc = "start"
  /\ call.op = "ratecv"
  /\ result' = ratecv(call.fragment, call.nchannels, call.inrate, call.outrate, call.state)
  /\ pc' = "done"
  /\ UNCHANGED <<call, history, appVars>>

InitFormat ==
  /\ pc = "start"
  /\ call \in [op : {"_get_sample_size", "_get_sample_format"}, fmt : Formats,
               byteorder : ByteOrders]
  /\ result = None
  /\ NoSession

SampleSizeCall ==
  /\ pc = "start"
  /\ call.op = "_get_sample_size"
  /\ result' = _get_sample_size(call.fmt, call.byteorder)
  /\ pc' = "done"
  /\ UNCHANGED <<call, history, appVars>>

SampleFormatCall ==
  /\ pc = "start"
  /\ call.op = "_get_sample_format"
  /\ result' = _get_sample_format(call.fmt, call.byteorder)
  /\ pc' = "done"
  /\ UNCHANGED <<call, history, appVars>>

(***************************************************************************)
(* A session: the caller makes up to MaxCalls calls, one after the other.  *)
(* In a thread of ratecv calls the state returned by a call is the state   *)
(* passed to the next call, None being passed to the first.                *)
(***************************************************************************)
\* the fragments of a session
SessionFragments == {<<>>, <<1, 0>>, <<255, 127, 0, 128>>}

\* the calls of a session: ratecv, and operations called in between
SessionCalls ==
  [op : {"ratecv"}, fragment : {<<>>, <<1, 0>>}, nchannels : {1}, inrate : {44100},
   outrate : Rates,
   state : {None, Tuple(<<BigOf(0), <<BigOf(0)>>, <<BigOf(0)>>>>),
            Tuple(<<BigOf(5), <<BigOf(1)>>, <<BigOf(2)>>>>)}]
    \cup [op : {"mul"}, fragment : {<<1, 0>>}, width : {2}, factor : {<<2, 1, 0>>}]
    \cup [op : {"lin2lin"}, fragment : {<<1, 0>>}, width : {2}, newwidth : {1, 4}]
    \cup [op : {"reverse"}, fragment : {<<1, 0>>}, width : {1}]

\* the ratecv calls of a thread that pass the state
ThreadCalls(state) ==
  [op : {"ratecv"}, fragment : SessionFragments, nchannels : {1, 2}, inrate : Rates,
   outrate : Rates, state : {state}]

\* the operation of the call c, applied to its arguments
Apply(c) ==
  IF c.op = "ratecv" THEN ratecv(c.fragment, c.nchannels, c.inrate, c.outrate, c.state)
  ELSE IF c.op = "mul" THEN mul(c.fragment, c.width, c.factor)
  ELSE IF c.op = "lin2lin" THEN lin2lin(c.fragment, c.width, c.newwidth)
  ELSE reverse(c.fragment, c.width)

\* the arguments of the call c, as they are when the call has returned
ArgumentsAfter(c) ==
  IF c.op = "ratecv"
    THEN [c EXCEPT !.state =
            ratecvPassedState(c.fragment, c.nchannels, c.inrate, c.outrate, c.state)]
    ELSE c

InitSession ==
  /\ pc = "start"
  /\ call \in SessionCalls
  /\ result = None
  /\ NoSession

InitThread ==
  /\ pc = "start"
  /\ call \in ThreadCalls(None)
  /\ result = None
  /\ NoSession

SessionCall ==
  /\ pc = "start"
  /\ result' = Apply(call)
  /\ history' = Append(history, [call |-> call, after |-> ArgumentsAfter(call),
                                 result |-> Apply(call)])
  /\ pc' = "done"
  /\ UNCHANGED <<call, appVars>>

\* the caller goes on to any next call
SessionNext ==
  /\ pc = "done"
  /\ Len(history) < MaxCalls
  /\ call' \in SessionCalls
  /\ result' = None
  /\ pc' = "start"
  /\ UNCHANGED <<history, appVars>>

\* the caller goes on to a ratecv call that passes the state just returned
ThreadNext ==
  /\ pc = "done"
  /\ Len(history) < MaxCalls
  /\ Returned(result)
  /\ call' \in ThreadCalls(result.value[2])
  /\ result' = None
  /\ pc' = "start"
  /\ UNCHANGED <<history, appVars>>

(***************************************************************************)
(* The capture loop of the three variants: src/Musico.py ("gui"),          *)
(* src/Musico_console.py ("console") and src/Musico_macos.py ("macos").    *)
(* One cycle is one call of process_audio_sample; pc is "idle" between two *)
(* cycles.  What the microphone, the disk, Shazam and the display do is    *)
(* chosen by the environment.  cycle records what has happened in the      *)
(* cycle under way, or in the last one when pc is "idle":                  *)
(*   before  current_state when the cycle began                            *)
(*   audio   "None" (recording failed), "silent" or "music"                *)
(*   file    the temporary file the cycle has created, or NoFile           *)
(*   saved   the WAV data was written to the file                          *)
(*   called  identify_music was called                                     *)
(*   track   identify_music returned a track                               *)
(*   raised  the cycle ended by an exception                               *)
(*   display the state last shown (print_state_change, update_gui), "none" *)
(*           before the first; it stays from one cycle to the next         *)
(* Only the console variant has the field current_state.                   *)
(***************************************************************************)
Variants == {"gui", "console", "macos"}

NoFile == <<"none", 0>>

\* filename="temp_audio.wav" in the gui and console variants; in the macos
\* variant tempfile.NamedTemporaryFile(suffix='.wav', delete=False) makes a
\* name that no file has
TempFileName(variant) ==
  IF variant = "macos" THEN <<"tmp.wav", Cardinality(temp_file) + 1>>
  ELSE <<"temp_audio.wav", 0>>

\* the state of a non-silent cycle that always ends identified
stateAlwaysIdentified(track_info) == "music_identified"

\* the state set after identify_music: if track_info: ... else: ...
stateAfterIdentify(track_info) ==
  IF track_info THEN "music_identified" ELSE "music_detected"

\* the cleanup of the macos variant follows the display update in the body
\* of the with statement; the other variants have it in a finally clause
CleanupInFinally(variant) == variant \in {"gui", "console"}

\* what is shown after a display update to state: the console variant
\* prints only when the state changes (was is its current_state); an
\* update that raises shows nothing
Shown(raised, was, state) ==
  IF raised \/ (call.variant = "console" /\ was = state) THEN cycle.display
  ELSE state

InitCapture ==
  /\ pc = "idle"
  /\ call \in [op : {"process_audio_sample"}, variant : Variants]
  /\ result = None
  /\ NoSession

InitConsole ==
  /\ InitCapture
  /\ call.variant = "console"

\* audio_data = self.record_audio_sample(); if audio_data is None: return
RecordAudioSample ==
  /\ pc = "idle"
  /\ call.op = "process_audio_sample"
  /\ Cardinality(temp_file) < MaxFiles
  /\ \E audio \in {"None", "silent", "music"} :
       /\ cycle' = [before |-> current_state, audio |-> audio, file |-> NoFile,
                    saved |-> FALSE, called |-> FALSE, track |-> FALSE, raised |-> FALSE,
                    display |-> IF cycle = None THEN "none" ELSE cycle.display]
       /\ pc' = IF audio = "None" THEN "idle" ELSE "recorded"
  /\ UNCHANGED <<call, result, history, current_state, temp_file>>

\* if self.is_silent(audio_data): the state becomes "silence", the display
\* is updated (print_state_change when the state changes, root.after), and
\* the cycle returns
SilentSample ==
  /\ pc = "recorded"
  /\ cycle.audio = "silent"
  /\ current_state' = IF call.variant = "console" THEN "silence" ELSE current_state
  /\ \E raised \in BOOLEAN :
       /\ (raised /\ call.variant = "console") => current_state # "silence"
       /\ cycle' = [cycle EXCEPT !.raised = raised,
                                 !.display = Shown(raised, current_state, "silence")]
  /\ pc' = "idle"
  /\ UNCHANGED <<call, result, history, temp_file>>

\* not silent: the state becomes "music_detected" and the display is updated;
\* an exception of the display ends the cycle
MusicDetected ==
  /\ pc = "recorded"
  /\ cycle.audio = "music"
  /\ current_state' = IF call.variant = "console" THEN "music_detected" ELSE current_state
  /\ \E raised \in BOOLEAN :
       /\ (raised /\ call.variant = "console") => current_state # "music_detected"
       /\ cycle' = [cycle EXCEPT !.raised = raised,
                                 !.display = Shown(raised, current_state, "music_detected")]
       /\ pc' = IF raised THEN "idle" ELSE "detected"
  /\ UNCHANGED <<call, result, history, temp_file>>

\* the file is opened for writing, which creates it, and the WAV data is
\* written.  save_audio_sample (gui, console) catches an exception and
\* returns None, and the cycle returns; in the macos variant the exception
\* leaves process_audio_sample.
SaveAudioSample ==
  /\ pc = "detected"
  /\ \E outcome \in {"saved", "not_created", "write_failed"} :
       LET name == TempFileName(call.variant)
       IN  /\ temp_file' = IF outcome = "not_created" THEN temp_file ELSE temp_file \cup {name}
           /\ cycle' = [cycle EXCEPT
                          !.file = IF outcome = "not_created" THEN NoFile ELSE name,
                          !.saved = (outcome = "saved"),
                          !.raised = (outcome # "saved" /\ call.variant = "macos")]
           /\ pc' = IF outcome = "saved" THEN "saved" ELSE "idle"
  /\ UNCHANGED <<call, result, history, current_state>>

\* track_info = await self.identify_music(temp_file): a track or None;
\* identify_music catches the exceptions of Shazam and returns None
IdentifyMusic ==
  /\ pc = "saved"
  /\ \E track \in BOOLEAN : cycle' = [cycle EXCEPT !.called = TRUE, !.track = track]
  /\ pc' = "identified"
  /\ UNCHANGED <<call, result, history, current_state, temp_file>>

\* the state is set from track_info and the display is updated; after an
\* exception of the display the cleanup runs only where it is in a finally
\* clause
UpdateDisplay ==
  /\ pc = "identified"
  /\ current_state' = IF call.variant = "console" THEN stateAfterIdentify(cycle.track)
                       ELSE current_state
  /\ \E raised \in BOOLEAN :
       /\ cycle' = [cycle EXCEPT !.raised = raised,
                                 !.display = Shown(raised, "none", stateAfterIdentify(cycle.track))]
       /\ pc' = IF raised /\ ~CleanupInFinally(call.variant) THEN "idle" ELSE "cleanup"
  /\ UNCHANGED <<call, result, history, temp_file>>

\* if os.path.exists(temp_file): os.remove(temp_file); os.unlink in the
\* macos variant
CleanUp ==
  /\ pc = "cleanup"
  /\ temp_file' = temp_file \ {cycle.file}
  /\ pc' = "idle"
  /\ UNCHANGED <<call, result, history, current_state, cycle>>

NextCapture ==
  \/ RecordAudioSample
  \/ SilentSample
  \/ MusicDetected
  \/ SaveAudioSample
  \/ IdentifyMusic
  \/ UpdateDisplay
  \/ CleanUp

SpecCapture == InitCapture /\ [][NextCapture]_vars

SpecConsole == InitConsole /\ [][NextCapture]_vars

SpecMul == InitMul /\ [][MulCall]_vars

SpecAdd == InitAdd /\ [][AddCall]_vars

SpecBias == InitBias /\ [][BiasCall]_vars

NextReverse == ReverseCall \/ ReverseBack

SpecReverse == InitReverse /\ [][NextReverse]_vars

SpecTomono == InitTomono /\ [][TomonoCall]_vars

SpecTostereo == InitTostereo /\ [][TostereoCall]_vars

NextLin2lin == Lin2linCall \/ Lin2linBack

SpecLin2lin == InitLin2lin /\ [][NextLin2lin]_vars

NextLin2ulaw == Lin2ulawCall \/ Lin2ulawBack

SpecLin2ulaw == InitLin2ulaw /\ [][NextLin2ulaw]_vars

SpecUlaw2lin == InitUlaw2lin /\ [][Ulaw2linCall]_vars

SpecRatecv == InitRatecv /\ [][RatecvCall]_vars

NextFormat == SampleSizeCall \/ SampleFormatCall

NextSession == SessionCall \/ SessionNext

SpecSession == InitSession /\ [][NextSession]_vars

NextThread == SessionCall \/ ThreadNext

SpecThread == InitThread /\ [][NextThread]_vars

SpecFormat == InitFormat /\ [][NextFormat]_vars

\* every operation of the library
Init ==
  \/ InitMul
  \/ InitAdd
  \/ InitBias
  \/ InitReverse
  \/ InitTomono
  \/ InitTostereo
  \/ InitLin2lin
  \/ InitLin2ulaw
  \/ InitUlaw2lin
  \/ InitRatecv

Next ==
  \/ MulCall
  \/ AddCall
  \/ BiasCall
  \/ ReverseCall
  \/ ReverseBack
  \/ TomonoCall
  \/ TostereoCall
  \/ Lin2linCall
  \/ Lin2linBack
  \/ Lin2ulawCall
  \/ Lin2ulawBack
  \/ Ulaw2linCall
  \/ RatecvCall

Spec == Init /\ [][Next]_vars

(***************************************************************************)
(* The data model the claims are stated in: a width-1 sample is an         *)
(* unsigned byte, a width-2 or width-4 sample is signed, little-endian.    *)
(***************************************************************************)
BigNeg(a) == Norm(-a[1], -a[2])

RECURSIVE UnsignedValue(_)
UnsignedValue(chunk) ==
  IF chunk = <<>> THEN BigOf(0)
  ELSE BigAdd(BigOf(Head(chunk)), BigScale(UnsignedValue(Tail(chunk)), 256))

\* 2^(8 * width) for width 2 and 4
Modulus(width) == IF width = 2 THEN <<1, 0>> ELSE <<Base, 0>>

SampleValue(chunk, width) ==
  IF width = 1 \/ chunk[width] < 128
    THEN UnsignedValue(chunk)
    ELSE BigAdd(UnsignedValue(chunk), BigNeg(Modulus(width)))

SampleCount(fragment, width) == Len(fragment) \div width

SampleAt(fragment, width, i) ==
  SampleValue(SubSeq(fragment, (i - 1) * width + 1, i * width), width)

RangeMin(width) ==
  IF width = 1 THEN BigOf(0) ELSE IF width = 2 THEN BigOf(-32768) ELSE <<-32768, 0>>

RangeMax(width) ==
  IF width = 1 THEN BigOf(255) ELSE IF width = 2 THEN BigOf(32767) ELSE <<32767, 65535>>

Clamp(v, lo, hi) == IF BigLess(v, lo) THEN lo ELSE IF BigLess(hi, v) THEN hi ELSE v

\* trunc(p / d): the magnitude is rounded down, the sign kept
Trunc(p, d) == IF p[1] < 0 THEN BigNeg(BigFloorDiv(BigNeg(p), d)) ELSE BigFloorDiv(p, d)

\* clamp(trunc(sample * factor), min_w, max_w), the product taken in the
\* reals: a product of magnitude 2^1023 or more lies beyond the range
Scaled(sample, factor, width) ==
  LET p == BigScale(sample, factor[1])
  IN  IF factor[3] = 0 \/ p = BigOf(0)
        THEN Clamp(Trunc(p, factor[2]), RangeMin(width), RangeMax(width))
      ELSE IF p[1] < 0 THEN RangeMin(width)
      ELSE RangeMax(width)

\* the double sample * factor is finite
FiniteProduct(sample, factor) ==
  factor[3] = 0 \/ BigScale(sample, factor[1]) \in {BigOf(-1), BigOf(0), BigOf(1)}

WholeSamples(fragment, width) == width \in {1, 2, 4} /\ Len(fragment) % width = 0

Done(op) == pc = "done" /\ call.op = op

\* C1: scale (mul) of a fragment of whole samples at width 1, 2 or 4 returns,
\* for every factor, a fragment of the same length whose sample i is
\* clamp(trunc(sample_i * factor), min_w, max_w); it never wraps.
C1_ScaleSaturates ==
  (Done("mul") /\ WholeSamples(call.fragment, call.width)) =>
    /\ Returned(result)
    /\ Len(result.value) = Len(call.fragment)
    /\ \A i \in 1..SampleCount(call.fragment, call.width) :
         SampleAt(result.value, call.width, i) =
           Scaled(SampleAt(call.fragment, call.width, i), call.factor, call.width)

\* C1, where it holds: the same, for the calls in which every product
\* sample_i * factor is a finite double.
C1_ScaleSaturatesFinite ==
  (\A i \in 1..SampleCount(call.fragment, call.width) :
     FiniteProduct(SampleAt(call.fragment, call.width, i), call.factor)) => C1_ScaleSaturates

\* the error kinds of the specification, as the code raises them
UnsupportedWidth(r) ==
  /\ Raised(r)
  /\ r.exc = "ValueError"
  /\ r.msg \in {"Unsupported sample width", "Unsupported input width", "Unsupported output width",
                "Unsupported width for u-law", "Unsupported width for linear"}

LengthMismatch(r) ==
  Raised(r) /\ r.exc = "ValueError" /\ r.msg = "Fragments must have the same length"

\* C2: sum (add) fails with LengthMismatch whenever the two fragments differ
\* in byte length, whatever the width and also when one fragment is empty;
\* no fragment is returned.
C2_SumLengthMismatch ==
  (Done("add") /\ Len(call.fragment1) # Len(call.fragment2)) => LengthMismatch(result)

\* an empty first fragment, an unsupported width
C2_Witness ==
  /\ Done("add")
  /\ call.fragment1 = <<>>
  /\ call.fragment2 = <<1, 0>>
  /\ call.width = 3
  /\ LengthMismatch(result)

\* C3: sum (add) of two fragments of one length, a multiple of the width 1, 2
\* or 4, returns a fragment of that length whose sample i is
\* clamp(a_i + b_i, min_w, max_w).
C3_SumSaturates ==
  (/\ Done("add")
   /\ Len(call.fragment1) = Len(call.fragment2)
   /\ WholeSamples(call.fragment1, call.width)) =>
    /\ Returned(result)
    /\ Len(result.value) = Len(call.fragment1)
    /\ \A i \in 1..SampleCount(call.fragment1, call.width) :
         SampleAt(result.value, call.width, i) =
           Clamp(BigAdd(SampleAt(call.fragment1, call.width, i),
                        SampleAt(call.fragment2, call.width, i)),
                 RangeMin(call.width), RangeMax(call.width))

\* 32767 + 1 stays 32767 and -32768 + -1 stays -32768
C3_Witness ==
  /\ Done("add")
  /\ call.width = 2
  /\ call.fragment1 = <<255, 127, 0, 128>>
  /\ call.fragment2 = <<1, 0, 255, 255>>
  /\ result = Return(<<255, 127, 0, 128>>)

\* C4: addBias (bias) of a fragment of whole samples at width 1, 2 or 4, with
\* any integer bias, returns a fragment of the same length whose sample i is
\* clamp(sample_i + bias, min_w, max_w).
C4_BiasSaturates ==
  (Done("bias") /\ WholeSamples(call.fragment, call.width)) =>
    /\ Returned(result)
    /\ Len(result.value) = Len(call.fragment)
    /\ \A i \in 1..SampleCount(call.fragment, call.width) :
         SampleAt(result.value, call.width, i) =
           Clamp(BigAdd(SampleAt(call.fragment, call.width, i), call.bias),
                 RangeMin(call.width), RangeMax(call.width))

\* width 4, bias 2^32: 2147483647 and -2147483648 both end at 2147483647
C4_Witness ==
  /\ Done("bias")
  /\ call.width = 4
  /\ call.fragment = <<255, 255, 255, 127, 0, 0, 0, 128>>
  /\ call.bias = <<Base, 0>>
  /\ result = Return(<<255, 255, 255, 127, 255, 255, 255, 127>>)

\* C5: every width-dispatching operation fails with UnsupportedWidth when the
\* width is outside its supported set, for every fragment, the empty one
\* included: mul, add (fragments of one length), bias, tomono and tostereo
\* outside {1, 2, 4}, lin2ulaw and ulaw2lin outside {1, 2}.
C5_UnsupportedWidthFails ==
  /\ (/\ pc = "done"
      /\ call.op \in {"mul", "bias", "tomono", "tostereo"}
      /\ call.width \notin {1, 2, 4}) => UnsupportedWidth(result)
  /\ (/\ Done("add")
      /\ Len(call.fragment1) = Len(call.fragment2)
      /\ call.width \notin {1, 2, 4}) => UnsupportedWidth(result)
  /\ (/\ pc = "done"
      /\ call.op \in {"lin2ulaw", "ulaw2lin"}
      /\ call.width \notin {1, 2}) => UnsupportedWidth(result)

\* C6: reverse of a fragment of N = length / width whole samples returns a
\* fragment of the same length in which the chunk of sample i of the input
\* is the chunk of sample N - 1 - i, its bytes in their order.
C6_ReverseChunks ==
  (/\ Done("reverse")
   /\ call.width >= 1
   /\ Len(call.fragment) % call.width = 0) =>
    /\ Returned(result)
    /\ Len(result.value) = Len(call.fragment)
    /\ LET w == call.width
           N == SampleCount(call.fragment, w)
       IN  \A i \in 0..(N - 1) :
             SubSeq(result.value, (N - 1 - i) * w + 1, (N - i) * w) =
               SubSeq(call.fragment, i * w + 1, (i + 1) * w)

C6_Witness ==
  /\ Done("reverse")
  /\ call.width = 2
  /\ call.fragment = <<1, 0, 255, 127, 0, 128>>
  /\ result = Return(<<0, 128, 255, 127, 1, 0>>)

\* the length is a multiple of the width (of width 0: the length is 0)
MultipleOf(length, width) == IF width = 0 THEN length = 0 ELSE length % width = 0

\* C7: reverse is an involution: for a fragment (the empty one included)
\* whose length is a multiple of the width, reversing the reversed fragment
\* returns the fragment.
C7_ReverseInvolution ==
  (call.op = "reverse" /\ MultipleOf(Len(call.fragment), call.width)) =>
    /\ pc = "done" => Returned(result)
    /\ pc = "back" => result = Return(call.fragment)

C7_Witness ==
  /\ pc = "back"
  /\ call.op = "reverse"
  /\ call.width = 4
  /\ call.fragment = <<1, 0, 0, 0, 0, 0, 0, 128>>
  /\ result = Return(<<1, 0, 0, 0, 0, 0, 0, 128>>)

\* clamp(trunc(left * lfactor + right * rfactor), min_w, max_w), the sum
\* taken in the reals: it is huge * 2^1023 + num / den, and beyond the range
\* when huge is not 0
Mixed(left, right, lfactor, rfactor, width) ==
  LET l == BigScale(left, lfactor[1])
      r == BigScale(right, rfactor[1])
      zero == BigOf(0)
      huge == BigAdd(IF lfactor[3] = 0 THEN zero ELSE l, IF rfactor[3] = 0 THEN zero ELSE r)
      num == BigAdd(IF lfactor[3] = 0 THEN BigScale(l, rfactor[2]) ELSE zero,
                    IF rfactor[3] = 0 THEN BigScale(r, lfactor[2]) ELSE zero)
  IN  IF huge = zero
        THEN Clamp(Trunc(num, lfactor[2] * rfactor[2]), RangeMin(width), RangeMax(width))
      ELSE IF huge[1] < 0 THEN RangeMin(width)
      ELSE RangeMax(width)

\* C8: toMono (tomono) of a fragment of N whole samples at width 1, 2 or 4
\* returns floor(N / 2) samples; sample k is
\* clamp(trunc(s_2k * lfactor + s_2k+1 * rfactor), min_w, max_w); the
\* trailing sample of an odd N goes into no output sample.
C8_ToMono ==
  (Done("tomono") /\ WholeSamples(call.fragment, call.width)) =>
    /\ Returned(result)
    /\ Len(result.value) = (SampleCount(call.fragment, call.width) \div 2) * call.width
    /\ \A k \in 0..((SampleCount(call.fragment, call.width) \div 2) - 1) :
         SampleAt(result.value, call.width, k + 1) =
           Mixed(SampleAt(call.fragment, call.width, 2 * k + 1),
                 SampleAt(call.fragment, call.width, 2 * k + 2),
                 call.lfactor, call.rfactor, call.width)

\* C8, where it holds: the same, for the calls with two factors below 2^1023
C8_ToMonoFinite ==
  (call.op = "tomono" /\ call.lfactor[3] = 0 /\ call.rfactor[3] = 0) => C8_ToMono

\* C9: toStereo (tostereo) of a fragment of M whole samples at width 1, 2 or
\* 4 returns 2M samples; samples 2i and 2i+1 are
\* clamp(trunc(s_i * lfactor)) and clamp(trunc(s_i * rfactor)), left first.
C9_ToStereo ==
  (Done("tostereo") /\ WholeSamples(call.fragment, call.width)) =>
    /\ Returned(result)
    /\ Len(result.value) = 2 * Len(call.fragment)
    /\ \A i \in 0..(SampleCount(call.fragment, call.width) - 1) :
         /\ SampleAt(result.value, call.width, 2 * i + 1) =
              Scaled(SampleAt(call.fragment, call.width, i + 1), call.lfactor, call.width)
         /\ SampleAt(result.value, call.width, 2 * i + 2) =
              Scaled(SampleAt(call.fragment, call.width, i + 1), call.rfactor, call.width)

\* C9, where it holds: the same, for the calls with two factors below 2^1023
C9_ToStereoFinite ==
  (call.op = "tostereo" /\ call.lfactor[3] = 0 /\ call.rfactor[3] = 0) => C9_ToStereo

\* C10: linToLin (lin2lin) with width = newwidth in {1, 2, 4} returns the
\* fragment byte for byte, whatever the fragment.
C10_LinToLinIdentity ==
  (Done("lin2lin") /\ call.width = call.newwidth /\ call.width \in {1, 2, 4}) =>
    result = Return(call.fragment)

\* three bytes at width 2: a conversion would have to unpack a ragged buffer
C10_Witness ==
  /\ Done("lin2lin")
  /\ call.width = 2
  /\ call.newwidth = 2
  /\ call.fragment = <<1, 128, 255>>
  /\ result = Return(<<1, 128, 255>>)

\* C11: linToLin (lin2lin) fails with UnsupportedWidth whenever width or
\* newwidth is outside {1, 2, 4}, for every fragment: also with width =
\* newwidth unsupported, with an empty fragment, and with newwidth alone
\* unsupported.
C11_LinToLinUnsupportedWidth ==
  (/\ Done("lin2lin")
   /\ (call.width \notin {1, 2, 4} \/ call.newwidth \notin {1, 2, 4})) => UnsupportedWidth(result)

\* C11, where it holds: two different widths, a non-empty fragment of whole
\* samples when the width is supported
C11_LinToLinUnsupportedWidthConverted ==
  (/\ call.width # call.newwidth
   /\ call.fragment # <<>>
   /\ (call.width \in {2, 4} => Len(call.fragment) % call.width = 0)) =>
    C11_LinToLinUnsupportedWidth

\* the absolute difference of two samples is below 256
Within256(v, r) ==
  LET diff == BigAdd(v, BigNeg(r))
  IN  BigLess(BigOf(-256), diff) /\ BigLess(diff, BigOf(256))

\* C12: linToLin (lin2lin) from width 1 to width 2 and to width 4 returns one
\* sample per input byte; for every byte s the sample is (s - 128) * 256,
\* which lies in [-32768, 32512], so that the clamp leaves it unchanged.
C12_LinToLinFromWidth1 ==
  (Done("lin2lin") /\ call.width = 1 /\ call.newwidth \in {2, 4}) =>
    /\ Returned(result)
    /\ Len(result.value) = Len(call.fragment) * call.newwidth
    /\ \A i \in 1..Len(call.fragment) :
         LET value == BigScale(BigOf(call.fragment[i] - 128), 256)
         IN  /\ SampleAt(result.value, call.newwidth, i) = value
             /\ ~BigLess(value, BigOf(-32768))
             /\ ~BigLess(BigOf(32512), value)
             /\ Clamp(value, RangeMin(call.newwidth), RangeMax(call.newwidth)) = value

\* bytes 0, 128, 255 to width 4: -32768, 0, 32512
C12_Witness ==
  /\ Done("lin2lin")
  /\ call.width = 1
  /\ call.newwidth = 4
  /\ call.fragment = <<0, 128, 255>>
  /\ result = Return(<<0, 128, 255, 255, 0, 0, 0, 0, 0, 127, 0, 0>>)

\* floor(v / 256), read off the two halves of v: hi * 256 + floor(lo / 256)
Floor256(v) == BigAdd(BigScale(BigOf(v[1]), 256), BigOf(v[2] \div 256))

\* q is v / 256 rounded toward negative infinity: 256 * q <= v < 256 * q + 256
IsFloor256(q, v) ==
  /\ ~BigLess(v, BigScale(q, 256))
  /\ BigLess(v, BigAdd(BigScale(q, 256), BigOf(256)))

\* C13: linToLin (lin2lin) to width 1: for every sample v of a width-2 or
\* width-4 fragment the output byte is clamp(floor(v / 256) + 128, 0, 255),
\* the quotient rounded toward negative infinity (v = -1 gives 127); a
\* width-2 sample needs no clamping, a width-4 sample outside the 16-bit
\* range becomes 0 or 255.
C13_LinToLinToWidth1 ==
  (/\ Done("lin2lin")
   /\ call.width \in {2, 4}
   /\ call.newwidth = 1
   /\ Len(call.fragment) % call.width = 0) =>
    /\ Returned(result)
    /\ Len(result.value) = SampleCount(call.fragment, call.width)
    /\ \A i \in 1..SampleCount(call.fragment, call.width) :
         LET v == SampleAt(call.fragment, call.width, i)
             shifted == BigAdd(Floor256(v), BigOf(128))
         IN  /\ IsFloor256(Floor256(v), v)
             /\ BigOf(result.value[i]) = Clamp(shifted, BigOf(0), BigOf(255))
             /\ v = BigOf(-1) => result.value[i] = 127
             /\ call.width = 2 => Clamp(shifted, BigOf(0), BigOf(255)) = shifted
             /\ BigLess(v, BigOf(-32768)) => result.value[i] = 0
             /\ BigLess(BigOf(32767), v) => result.value[i] = 255

\* width 4: -1, 2147483647, -2147483648 become 127, 255, 0
C13_Witness ==
  /\ Done("lin2lin")
  /\ call.width = 4
  /\ call.newwidth = 1
  /\ call.fragment = <<255, 255, 255, 255, 255, 255, 255, 127, 0, 0, 0, 128>>
  /\ result = Return(<<127, 255, 0>>)

\* C14: linToLin (lin2lin) between width 2 and width 4 rescales nothing:
\* 2 -> 4 keeps the value of every sample, 4 -> 2 gives
\* clamp(v, -32768, 32767), and converting a width-2 fragment to width 4 and
\* back returns the fragment.
C14_LinToLinNoRescaling ==
  /\ (/\ Done("lin2lin")
      /\ call.width = 2
      /\ call.newwidth = 4
      /\ Len(call.fragment) % 2 = 0) =>
       /\ Returned(result)
       /\ Len(result.value) = 2 * Len(call.fragment)
       /\ \A i \in 1..SampleCount(call.fragment, 2) :
            SampleAt(result.value, 4, i) = SampleAt(call.fragment, 2, i)
  /\ (/\ Done("lin2lin")
      /\ call.width = 4
      /\ call.newwidth = 2
      /\ Len(call.fragment) % 4 = 0) =>
       /\ Returned(result)
       /\ 2 * Len(result.value) = Len(call.fragment)
       /\ \A i \in 1..SampleCount(call.fragment, 4) :
            SampleAt(result.value, 2, i) =
              Clamp(SampleAt(call.fragment, 4, i), BigOf(-32768), BigOf(32767))
  /\ (/\ pc = "back"
      /\ call.op = "lin2lin"
      /\ call.width = 2
      /\ call.newwidth = 4
      /\ Len(call.fragment) % 2 = 0) => result = Return(call.fragment)

\* 1, 32767, -32768 to width 4 and back
C14_Witness ==
  /\ pc = "back"
  /\ call.op = "lin2lin"
  /\ call.width = 2
  /\ call.newwidth = 4
  /\ call.fragment = <<1, 0, 255, 127, 0, 128>>
  /\ result = Return(<<1, 0, 255, 127, 0, 128>>)

\* 4 -> 2 saturates: 2147483647 and -2147483648 become 32767 and -32768
C14_WitnessClamp ==
  /\ Done("lin2lin")
  /\ call.width = 4
  /\ call.newwidth = 2
  /\ call.fragment = <<255, 255, 255, 127, 0, 0, 0, 128>>
  /\ result = Return(<<255, 127, 0, 128>>)

\* C15: the round trip of linToLin (lin2lin) through width 1 is lossy within
\* bounds: for a width-2 fragment, lin2lin(lin2lin(x, 2, 1), 1, 2) has the
\* length of x and every sample r of it differs from the sample v of x by
\* less than 256.
C15_LinToLinRoundTripBounded ==
  (/\ call.op = "lin2lin"
   /\ call.width = 2
   /\ call.newwidth = 1
   /\ Len(call.fragment) % 2 = 0) =>
    /\ pc = "done" => Returned(result)
    /\ pc = "back" =>
         /\ Returned(result)
         /\ Len(result.value) = Len(call.fragment)
         /\ \A i \in 1..SampleCount(call.fragment, 2) :
              Within256(SampleAt(call.fragment, 2, i), SampleAt(result.value, 2, i))

\* 1, -1, 32767 come back as 0, -256, 32512: the round trip loses 1, 255, 255
C15_Witness ==
  /\ pc = "back"
  /\ call.op = "lin2lin"
  /\ call.width = 2
  /\ call.newwidth = 1
  /\ call.fragment = <<1, 0, 255, 255, 255, 127>>
  /\ result = Return(<<0, 0, 0, 255, 0, 127>>)

\* C16: linToCompanded (lin2ulaw) at width 1 returns the fragment unchanged;
\* at width 2 it returns one byte per sample, byte i being
\* clamp((sample_i + 32768) / 256, 0, 255) with integer division, a value
\* that lies in [0, 255] for every 16-bit sample.
C16_LinToCompanded ==
  /\ (Done("lin2ulaw") /\ call.width = 1) => result = Return(call.fragment)
  /\ (Done("lin2ulaw") /\ call.width = 2 /\ Len(call.fragment) % 2 = 0) =>
       /\ Returned(result)
       /\ Len(result.value) = SampleCount(call.fragment, 2)
       /\ \A i \in 1..SampleCount(call.fragment, 2) :
            LET quotient == Floor256(BigAdd(SampleAt(call.fragment, 2, i), BigOf(32768)))
            IN  /\ IsFloor256(quotient, BigAdd(SampleAt(call.fragment, 2, i), BigOf(32768)))
                /\ BigOf(result.value[i]) = Clamp(quotient, BigOf(0), BigOf(255))
                /\ Clamp(quotient, BigOf(0), BigOf(255)) = quotient

\* 1, -1, -32768 encode as 128, 127, 0
C16_Witness ==
  /\ Done("lin2ulaw")
  /\ call.width = 2
  /\ call.fragment = <<1, 0, 255, 255, 0, 128>>
  /\ result = Return(<<128, 127, 0>>)

\* width 1: the fragment comes back as it is
C16_WitnessWidth1 ==
  /\ Done("lin2ulaw")
  /\ call.width = 1
  /\ call.fragment = <<1, 128, 255>>
  /\ result = Return(<<1, 128, 255>>)

\* C17: compandedToLin (ulaw2lin) at width 1 returns the fragment unchanged;
\* at width 2 it returns one 16-bit sample per byte (twice the bytes), sample
\* i being clamp((byte_i - 128) * 256, -32768, 32767).
C17_CompandedToLin ==
  /\ (Done("ulaw2lin") /\ call.width = 1) => result = Return(call.fragment)
  /\ (Done("ulaw2lin") /\ call.width = 2) =>
       /\ Returned(result)
       /\ Len(result.value) = 2 * Len(call.fragment)
       /\ \A i \in 1..Len(call.fragment) :
            SampleAt(result.value, 2, i) =
              Clamp(BigScale(BigOf(call.fragment[i] - 128), 256), BigOf(-32768), BigOf(32767))

\* bytes 0, 128, 255 decode as -32768, 0, 32512
C17_Witness ==
  /\ Done("ulaw2lin")
  /\ call.width = 2
  /\ call.fragment = <<0, 128, 255>>
  /\ result = Return(<<0, 128, 0, 0, 0, 127>>)

\* C18: the companding round trip has a bounded error: for a width-2
\* fragment, ulaw2lin(lin2ulaw(x, 2), 2) has the length of x and every sample
\* r of it differs from the sample v of x by less than 256.
C18_CompandingRoundTripBounded ==
  (call.op = "lin2ulaw" /\ call.width = 2 /\ Len(call.fragment) % 2 = 0) =>
    /\ pc = "done" => Returned(result)
    /\ pc = "back" =>
         /\ Returned(result)
         /\ Len(result.value) = Len(call.fragment)
         /\ \A i \in 1..SampleCount(call.fragment, 2) :
              Within256(SampleAt(call.fragment, 2, i), SampleAt(result.value, 2, i))

\* 1, -1, 32767 come back as 0, -256, 32512
C18_Witness ==
  /\ pc = "back"
  /\ call.op = "lin2ulaw"
  /\ call.width = 2
  /\ call.fragment = <<1, 0, 255, 255, 255, 127>>
  /\ result = Return(<<0, 0, 0, 255, 0, 127>>)

\* the identity state of n channels: (0, n zeros, n zeros)
IdentityState(n) ==
  [kind |-> "tuple",
   items |-> <<BigOf(0), [c \in 1..n |-> BigOf(0)], [c \in 1..n |-> BigOf(0)]>>]

\* a conversion state: an accumulator, the previous and the current samples
IsState(state) == state.kind = "tuple" /\ Len(state.items) = 3

\* C19: convert (ratecv) of a non-empty fragment with inrate = outrate and
\* state None returns the fragment unchanged together with the identity
\* state (0, n zeros, n zeros) of the n channels, not with None.
C19_RateIdentityState ==
  (/\ Done("ratecv")
   /\ call.fragment # <<>>
   /\ call.inrate = call.outrate
   /\ call.state = None) =>
    result = Return(<<call.fragment, IdentityState(call.nchannels)>>)

\* C19, the part that holds: the fragment is returned unchanged
C19_RateIdentityFragment ==
  (/\ Done("ratecv")
   /\ call.fragment # <<>>
   /\ call.inrate = call.outrate
   /\ call.state = None) =>
    /\ Returned(result)
    /\ result.value[1] = call.fragment

\* C20: convert (ratecv) of a non-empty fragment with inrate # outrate
\* resamples nothing: it returns the fragment byte for byte, together with
\* the passed state when a state was passed and with the identity state
\* (0, zeros(channels), zeros(channels)) when the state was None.
C20_RateMismatchPassThrough ==
  (/\ Done("ratecv")
   /\ call.fragment # <<>>
   /\ call.inrate # call.outrate
   /\ (call.state = None \/ IsState(call.state))) =>
    result = Return(<<call.fragment,
                      IF call.state = None THEN IdentityState(call.nchannels)
                      ELSE call.state>>)

\* two channels, no state: the state returned is (0, [0, 0], [0, 0])
C20_Witness ==
  /\ Done("ratecv")
  /\ call.fragment = <<1, 0, 255, 127>>
  /\ call.nchannels = 2
  /\ call.inrate = 44100
  /\ call.outrate = 22050
  /\ call.state = None
  /\ result = Return(<<<<1, 0, 255, 127>>,
                       [kind |-> "tuple",
                        items |-> <<<<0, 0>>, <<<<0, 0>>, <<0, 0>>>>, <<<<0, 0>>, <<0, 0>>>>>>]>>)

\* a state was passed: it comes back as it was
C20_WitnessState ==
  /\ Done("ratecv")
  /\ call.fragment = <<1, 0, 255, 127>>
  /\ call.inrate = 22050
  /\ call.outrate = 44100
  /\ IsState(call.state)
  /\ call.state.items[1] = BigOf(5)
  /\ result = Return(<<call.fragment, call.state>>)

\* C21: convert (ratecv) on an empty fragment returns the empty fragment and
\* the state it was given (None stays None, a passed state is returned as it
\* is), for every channel count and every pair of rates; no state is
\* initialized.
C21_RateEmptyFragment ==
  (Done("ratecv") /\ call.fragment = <<>>) => result = Return(<<<<>>, call.state>>)

\* no state, two different rates: the state returned is None
C21_Witness ==
  /\ Done("ratecv")
  /\ call.fragment = <<>>
  /\ call.nchannels = 2
  /\ call.inrate = 44100
  /\ call.outrate = 22050
  /\ call.state = None
  /\ result = Return(<<<<>>, None>>)

\* a passed state comes back with the empty fragment
C21_WitnessState ==
  /\ Done("ratecv")
  /\ call.fragment = <<>>
  /\ call.inrate # call.outrate
  /\ IsState(call.state)
  /\ call.state.items[1] = BigOf(5)
  /\ result = Return(<<<<>>, call.state>>)

\* the error kind UnsupportedFormat, as the code raises it
UnsupportedFormat(r) ==
  Raised(r) /\ r.exc = "ValueError" /\ r.msg = "Unsupported audio format"

\* C22: convert (ratecv) called with a channel count outside the recognized
\* set, in particular 0, fails with UnsupportedFormat; it returns no fragment
\* and no state.
C22_RateZeroChannels ==
  (Done("ratecv") /\ call.nchannels < 1) => UnsupportedFormat(result)

\* C26: up-conversion followed by down-conversion is exact: for every
\* width-1 fragment y, lin2lin(lin2lin(y, 1, 2), 2, 1) = y and
\* lin2lin(lin2lin(y, 1, 4), 4, 1) = y; so quantizing to 8 bits is
\* idempotent: down, up and down again equals down.
C26_LinToLinUpDownExact ==
  /\ (call.op = "lin2lin" /\ call.width = 1 /\ call.newwidth \in {2, 4}) =>
       /\ pc = "done" => Returned(result)
       /\ pc = "back" => result = Return(call.fragment)
  /\ (/\ pc = "back"
      /\ call.op = "lin2lin"
      /\ call.width \in {2, 4}
      /\ call.newwidth = 1
      /\ Len(call.fragment) % call.width = 0) =>
       /\ Returned(result)
       /\ lin2lin(result.value, call.width, 1) = lin2lin(call.fragment, call.width, 1)

\* bytes 0, 1, 255 to width 4 and back
C26_Witness ==
  /\ pc = "back"
  /\ call.op = "lin2lin"
  /\ call.width = 1
  /\ call.newwidth = 4
  /\ call.fragment = <<0, 1, 255>>
  /\ result = Return(<<0, 1, 255>>)

\* down, up, down: 1 and -1 quantize to 128 and 127, and 0 and -256 do too
C26_WitnessIdempotent ==
  /\ pc = "back"
  /\ call.op = "lin2lin"
  /\ call.width = 2
  /\ call.newwidth = 1
  /\ call.fragment = <<1, 0, 255, 255>>
  /\ result = Return(<<0, 0, 0, 255>>)
  /\ lin2lin(result.value, 2, 1) = Return(<<128, 127>>)

\* C27: the companding codec coincides with the width converter: for every
\* width-2 fragment x, lin2ulaw(x, 2) = lin2lin(x, 2, 1), and for every byte
\* fragment y, ulaw2lin(y, 2) = lin2lin(y, 1, 2).
C27_CompandingIsLinToLin ==
  /\ (Done("lin2ulaw") /\ call.width = 2) => result = lin2lin(call.fragment, 2, 1)
  /\ (Done("ulaw2lin") /\ call.width = 2) => result = lin2lin(call.fragment, 1, 2)

\* 1, -1, -32768 encode as 128, 127, 0, as lin2lin converts them
C27_Witness ==
  /\ Done("lin2ulaw")
  /\ call.width = 2
  /\ call.fragment = <<1, 0, 255, 255, 0, 128>>
  /\ result = Return(<<128, 127, 0>>)
  /\ lin2lin(call.fragment, 2, 1) = Return(<<128, 127, 0>>)

\* bytes 0, 128, 255 decode as -32768, 0, 32512, as lin2lin converts them
C27_WitnessDecode ==
  /\ Done("ulaw2lin")
  /\ call.width = 2
  /\ call.fragment = <<0, 128, 255>>
  /\ result = Return(<<0, 128, 0, 0, 0, 127>>)
  /\ lin2lin(call.fragment, 1, 2) = Return(<<0, 128, 0, 0, 0, 127>>)

\* C28: reverse does not validate its width and truncates ragged input: for
\* every positive width (3 included) it succeeds; the output has length
\* floor(length / width) * width and holds the trailing whole chunks in
\* reversed order, the leading (length mod width) bytes being dropped.
C28_ReverseRagged ==
  (Done("reverse") /\ call.width >= 1) =>
    /\ Returned(result)
    /\ LET w == call.width
           N == Len(call.fragment) \div w
           dropped == Len(call.fragment) % w
       IN  /\ Len(result.value) = N * w
           /\ \A k \in 0..(N - 1) :
                SubSeq(result.value, k * w + 1, (k + 1) * w) =
                  SubSeq(call.fragment, dropped + (N - 1 - k) * w + 1,
                         dropped + (N - k) * w)

\* three bytes at width 2: one chunk, the first byte dropped
C28_Witness ==
  /\ Done("reverse")
  /\ call.width = 2
  /\ call.fragment = <<1, 128, 255>>
  /\ result = Return(<<128, 255>>)

\* width 3, four bytes: one chunk, the first byte dropped
C28_WitnessWidth3 ==
  /\ Done("reverse")
  /\ call.width = 3
  /\ call.fragment = <<1, 0, 0, 0>>
  /\ result = Return(<<0, 0, 0>>)

\* the struct codes of the model: B is unsigned, h and i are signed
UnsignedFormat(format) == format = "B"

SignedFormat(format) == format \in {"<h", ">h", "<i", ">i"}

C23_WitnessUnsigned ==
  /\ Done("_get_sample_format")
  /\ call.fmt = 8
  /\ result = Return("B")

RECURSIVE FragmentsPassed(_)
FragmentsPassed(n) ==
  IF n = 0 THEN <<>> ELSE FragmentsPassed(n - 1) \o history[n].call.fragment

RECURSIVE FragmentsReturned(_)
FragmentsReturned(n) ==
  IF n = 0 THEN <<>> ELSE FragmentsReturned(n - 1) \o history[n].result.value[1]

\* accumulator 0, every channel slot 0
IsIdentityState(state) ==
  /\ IsState(state)
  /\ state.items[1] = BigOf(0)
  /\ \A k \in 2..3 : \A c \in 1..Len(state.items[k]) : state.items[k][c] = BigOf(0)

\* C25: threading the state through a sequence of convert (ratecv) calls,
\* from None on: the concatenation of the returned fragments is the
\* concatenation of the input fragments, and the threaded state is at every
\* step None or the identity state; no call advances the accumulator or the
\* previous and current slots.
C25_ThreadedStateIdentity ==
  /\ \A i \in 1..Len(history) :
       /\ Returned(history[i].result)
       /\ \/ history[i].result.value[2] = None
          \/ IsIdentityState(history[i].result.value[2])
       /\ history[i].call.state = IF i = 1 THEN None ELSE history[i - 1].result.value[2]
  /\ FragmentsReturned(Len(history)) = FragmentsPassed(Len(history))

\* three calls: equal rates (None), two different rates (the identity state
\* of two channels), that state passed on with an empty fragment
C25_Witness ==
  /\ Len(history) = 3
  /\ history[1].call.inrate = history[1].call.outrate
  /\ history[1].call.fragment = <<1, 0>>
  /\ history[1].result.value[2] = None
  /\ history[2].call.inrate # history[2].call.outrate
  /\ history[2].call.fragment = <<255, 127, 0, 128>>
  /\ history[2].result.value[2] = IdentityState(2)
  /\ history[3].call.state = IdentityState(2)
  /\ history[3].call.inrate # history[3].call.outrate
  /\ history[3].call.fragment = <<1, 0>>
  /\ history[3].result.value[2] = IdentityState(2)
  /\ FragmentsReturned(3) = <<1, 0, 255, 127, 0, 128, 1, 0>>

\* a cycle of the capture loop has finished
CycleFinished == pc = "idle" /\ call.op = "process_audio_sample" /\ cycle # None

\* C29: the console variant: current_state is always one of "silence",
\* "music_detected", "music_identified", and "silence" at first; after any
\* sequence of cycles, a cycle whose recording failed leaves current_state
\* unchanged, a cycle with a silent sample ends in "silence", a non-silent
\* cycle ends in "music_identified" exactly when the sample was saved and
\* identify_music returned a track and in "music_detected" otherwise;
\* identify_music is not called in a cycle whose sample is silent or whose
\* save failed.
C29_ConsoleStateMachine ==
  /\ current_state \in {"silence", "music_detected", "music_identified"}
  /\ (pc = "idle" /\ cycle = None) => current_state = "silence"
  /\ (cycle # None /\ cycle.called) => (cycle.audio = "music" /\ cycle.saved)
  /\ CycleFinished =>
       /\ cycle.audio = "None" => current_state = cycle.before
       /\ cycle.audio = "silent" => current_state = "silence"
       /\ cycle.audio = "music" =>
            IF cycle.saved /\ cycle.called /\ cycle.track
              THEN current_state = "music_identified"
              ELSE current_state = "music_detected"

\* a track was identified in the cycle before; this cycle found none
C29_Witness ==
  /\ CycleFinished
  /\ call.variant = "console"
  /\ cycle.before = "music_identified"
  /\ cycle.audio = "music"
  /\ cycle.saved
  /\ cycle.called
  /\ ~cycle.track
  /\ current_state = "music_detected"

\* the recording failed after an identified track: the state is kept
C29_WitnessRecordingFailed ==
  /\ CycleFinished
  /\ call.variant = "console"
  /\ cycle.before = "music_identified"
  /\ cycle.audio = "None"
  /\ current_state = "music_identified"

\* C30: in every variant of the capture loop (gui, console, macos) a
\* temporary WAV file created during a cycle no longer exists when the cycle
\* has finished, on every path: a track identified, no track identified, an
\* exception raised after the file was created (while the WAV data is
\* written, while identifying, while the display is updated).
C30_TempFileRemoved ==
  (CycleFinished /\ cycle.file # NoFile) => cycle.file \notin temp_file

\* C30, where it holds: the gui and console variants, once the WAV data has
\* been written; the display may raise
C30_TempFileRemovedAfterSave ==
  (CycleFinished /\ cycle.saved /\ CleanupInFinally(call.variant)) =>
    (cycle.file # NoFile /\ cycle.file \notin temp_file)

====
